---- MODULE Spec2Model ----
(***************************************************************************)
(* Column resolution, field normalisation, filtering, KPI and aggregation  *)
(* engine of the ATD dashboard (Streamlit_Dashboard/utils.py) together     *)
(* with the part of app.py that drives it.                                 *)
(*                                                                         *)
(* Numbers are fixed-point: the integer n stands for n / Unit.  Timestamps *)
(* are integer ticks since 2024-01-01T00:00:00 (a Monday), TicksPerMs      *)
(* ticks to the millisecond.  A statistic is a rational [n, d]; d = 0 is   *)
(* NaN.                                                                    *)
(***************************************************************************)
EXTENDS Integers, Sequences, FiniteSets, TLC

VARIABLES
  pc,         \* position in the script, or in the call of one function
  df,         \* the dataset variable `df`
  caller_df,  \* the object the caller handed to add_derived_fields
  cols,       \* the column mapping `cols`
  widgets,    \* what the sidebar widgets returned
  filters,    \* keyword arguments of filter_frame
  filtered,   \* the dataset variable `filtered`
  atd_col,    \* `atd_col`
  dim,        \* grouping column handed to agg_by
  kpis,       \* result of kpi_series
  df_agg      \* result of agg_by

vars == <<pc, df, caller_df, cols, widgets, filters, filtered, atd_col, dim, kpis, df_agg>>

----------------------------------------------------------------------------
(* Bounds of the model *)

MaxCols == 2        \* columns of a dataset handed to resolve_columns
MaxRows == 2        \* rows of a dataset
Unit == 10          \* fixed-point resolution of numbers
TicksPerMs == 2     \* timestamp resolution below the millisecond

----------------------------------------------------------------------------
(* Values *)

None == "<None>"

NA == [k |-> "na", s |-> "", n |-> 0]
Str(s) == [k |-> "str", s |-> s, n |-> 0]
Num(n) == [k |-> "num", s |-> "", n |-> n]
Ts(n) == [k |-> "ts", s |-> "", n |-> n]
Bool(b) == [k |-> "bool", s |-> "", n |-> IF b THEN 1 ELSE 0]

isna(c) == c.k = "na"

NoFrame == [columns |-> {}, rows |-> <<>>]

\* out[name] = series: column assignment on a frame, series[i] for row i
assign(d, name, series) ==
  [columns |-> d.columns \cup {name},
   rows |-> [i \in DOMAIN d.rows |->
               [c \in d.columns \cup {name} |->
                  IF c = name THEN series[i] ELSE d.rows[i][c]]]]

----------------------------------------------------------------------------
(* Column mapping *)

CANONICAL_COLS ==
  [territory |-> <<"territory", "Territory">>,
   geo_archetype |-> <<"geo_archetype", "Geo Archetype", "Geo_Archetype">>,
   courier_flow |-> <<"courier_flow", "Courier flow", "delivery_flow", "workflow">>,
   merchant_surface |-> <<"merchant_surface", "Merchant surface", "merchantSurface">>,
   eater_request_ts |-> <<"eater_request_timestamp_local", "eater_request_ts_local",
                          "eater_request_time", "eater_request">>,
   pickup_distance |-> <<"pickup_distance", "pickup_km">>,
   dropoff_distance |-> <<"dropoff_distance", "dropoff_km">>,
   atd |-> <<"ATD", "atd", "avg_time_to_deliver">>]

Keys == DOMAIN CANONICAL_COLS

RECURSIVE find_last_present(_, _)
find_last_present(d, candidates) ==
  IF candidates = <<>> THEN None
  ELSE IF candidates[Len(candidates)] \in d.columns THEN candidates[Len(candidates)]
  ELSE find_last_present(d, SubSeq(candidates, 1, Len(candidates) - 1))

RECURSIVE find_first_present(_, _)
find_first_present(d, candidates) ==
  IF candidates = <<>> THEN None
  ELSE IF Head(candidates) \in d.columns THEN Head(candidates)
  ELSE find_first_present(d, Tail(candidates))

resolve_columns(d) ==
  [key \in Keys |-> find_first_present(d, CANONICAL_COLS[key])]

NoCols == [key \in Keys |-> None]

----------------------------------------------------------------------------
(* resolve_columns on datasets of up to MaxCols columns *)

Aliases == UNION {{CANONICAL_COLS[k][i] : i \in DOMAIN CANONICAL_COLS[k]} : k \in Keys}

\* column names that are no alias: other case, other spelling, unrelated
Strangers == {"TERRITORY", "Atd", "pickup distance", "trip_id"}

ColumnUniverse == Aliases \cup Strangers

\* the subsets of S of at most n elements
RECURSIVE SubsetsUpTo(_, _)
SubsetsUpTo(S, n) ==
  IF n = 0 THEN {{}}
  ELSE LET P == SubsetsUpTo(S, n - 1)
       IN P \cup {A \cup {x} : A \in P, x \in S}

\* a keyword argument left at None; a list argument is <<values>>, a range
\* <<start, end>>
Unset == <<>>

NoFilters ==
  [territory |-> Unset, geo_archetype |-> Unset, courier_flow |-> Unset,
   merchant_surface |-> Unset, date_range |-> Unset, pickup_range |-> Unset,
   dropoff_range |-> Unset]

NoWidgets ==
  [territory |-> Unset, geo_archetype |-> Unset, courier_flow |-> Unset,
   merchant_surface |-> Unset, date_input |-> Unset, pickup |-> Unset,
   dropoff |-> Unset]

NoKpis == [count |-> 0, mean |-> [n |-> 0, d |-> 0], median |-> [n |-> 0, d |-> 0],
           p90 |-> [n |-> 0, d |-> 0]]

Idle ==
  /\ caller_df = NoFrame
  /\ cols = NoCols
  /\ widgets = NoWidgets
  /\ filters = NoFilters
  /\ filtered = NoFrame
  /\ atd_col = None
  /\ dim = None
  /\ kpis = NoKpis
  /\ df_agg = {}

InitResolve ==
  /\ pc = "read_csv"
  /\ \E S \in SubsetsUpTo(ColumnUniverse, MaxCols) :
       df = [columns |-> S, rows |-> <<>>]
  /\ Idle

\* app.py: cols = resolve_columns(df)
Resolve ==
  /\ pc = "read_csv"
  /\ cols' = resolve_columns(df)
  /\ pc' = "resolved"
  /\ UNCHANGED <<df, caller_df, filters, filtered, atd_col, dim, kpis, df_agg, widgets>>

SpecResolve == InitResolve /\ [][Resolve]_vars

\* index of the first alias of key that is a column, 0 when none is
FirstIndex(key, columns) ==
  LET hits == {i \in DOMAIN CANONICAL_COLS[key] : CANONICAL_COLS[key][i] \in columns}
  IN IF hits = {} THEN 0 ELSE CHOOSE i \in hits : \A j \in hits : i <= j

\* C1: resolve_columns maps every canonical key to the first alias, in
\* declared order, that is literally a column of the dataset, and to None
\* when no alias is a column; so every present value is a column of the
\* dataset and the mapping is a function of the column set alone.
C1_FirstAlias ==
  pc = "resolved" =>
    \A key \in Keys :
      LET i == FirstIndex(key, df.columns)
      IN /\ (i = 0) => cols[key] = None
         /\ (i # 0) => /\ cols[key] = CANONICAL_COLS[key][i]
                       /\ cols[key] \in df.columns

\* a dataset holding a lower-priority and a higher-priority alias of one key
\* and no alias of another
C1_Witness ==
  /\ pc = "resolved"
  /\ {"atd", "ATD"} \subseteq df.columns
  /\ cols.atd = "ATD"
  /\ cols.territory = None

----------------------------------------------------------------------------
(* Field normalisation: add_derived_fields and the temporal buckets *)

MsPerDay == 86400000
MsPerHour == 3600000
EpochDayOfWeek == 0      \* 2024-01-01, tick 0, is a Monday

At(day, ms, sub) == (day * MsPerDay + ms) * TicksPerMs + sub

\* pd.to_datetime on the texts the datasets hold; any other text is NaT
DateStrings ==
  [s \in {"2024-01-01T00:00:00", "2024-01-01T10:00:00", "2024-01-02T23:59:59.999",
          "2024-01-06T10:00:00", "2024-01-07T23:59:59.9995"} |->
     CASE s = "2024-01-01T00:00:00" -> At(0, 0, 0)
       [] s = "2024-01-01T10:00:00" -> At(0, 10 * MsPerHour, 0)
       [] s = "2024-01-02T23:59:59.999" -> At(1, MsPerDay - 1, 0)
       [] s = "2024-01-06T10:00:00" -> At(5, 10 * MsPerHour, 0)
       [] s = "2024-01-07T23:59:59.9995" -> At(6, MsPerDay - 1, TicksPerMs \div 2)]

\* pd.to_numeric on the texts the datasets hold; any other text is NaN
NumStrings ==
  [s \in {"2.5", "30", "0"} |->
     CASE s = "2.5" -> 2 * Unit + Unit \div 2
       [] s = "30" -> 30 * Unit
       [] s = "0" -> 0]

\* pd.to_datetime(errors="coerce") on one cell
to_datetime(c) ==
  CASE c.k = "ts" -> c
    [] c.k = "str" -> IF c.s \in DOMAIN DateStrings THEN Ts(DateStrings[c.s]) ELSE NA
    [] OTHER -> NA

_parse_datetime(c) == to_datetime(c)

\* pd.to_numeric(errors="coerce") on one cell
to_numeric(c) ==
  CASE c.k = "num" -> c
    [] c.k = "bool" -> Num(c.n * Unit)
    [] c.k = "str" -> IF c.s \in DOMAIN NumStrings THEN Num(NumStrings[c.s]) ELSE NA
    [] OTHER -> NA

\* `out = df`: the result is the caller's object
df_alias(d) == [frame |-> d, fresh |-> FALSE]

\* df.copy(): a new object holding the same cells
df_copy(d) == [frame |-> d, fresh |-> TRUE]

coerce_numeric(out, c, nm) ==
  LET col == c[nm]
  IN IF col # None /\ col \in out.columns
       THEN assign(out, col, [i \in DOMAIN out.rows |-> to_numeric(out.rows[i][col])])
       ELSE out

\* the returned frame `out`, and `df`: the caller's object after the call
add_derived_fields(d, c) ==
  LET cp == df_copy(d)
      eat_col == c["eater_request_ts"]
      out1 == IF eat_col # None /\ eat_col \in cp.frame.columns
                THEN assign(cp.frame, "_eater_request_dt",
                            [i \in DOMAIN cp.frame.rows |->
                               _parse_datetime(cp.frame.rows[i][eat_col])])
                ELSE assign(cp.frame, "_eater_request_dt",
                            [i \in DOMAIN cp.frame.rows |-> NA])
      out2 == coerce_numeric(out1, c, "pickup_distance")
      out3 == coerce_numeric(out2, c, "dropoff_distance")
      out4 == coerce_numeric(out3, c, "atd")
  IN [out |-> out4, df |-> IF cp.fresh THEN d ELSE out4]

\* dt.dt.hour, dt.dt.dayofweek: NaN on NaT
hour(c) ==
  IF isna(c) THEN NA
  ELSE Num((((c.n \div TicksPerMs) % MsPerDay) \div MsPerHour) * Unit)

dayofweek(c) ==
  IF isna(c) THEN NA
  ELSE Num(((((c.n \div TicksPerMs) \div MsPerDay) + EpochDayOfWeek) % 7) * Unit)

\* series >= 5: a comparison with NaN is False
ge5(c) == Bool(~isna(c) /\ c.n >= 5 * Unit)

\* dt = pd.to_datetime(df["_eater_request_dt"], errors="coerce")
request_dt(d) == [i \in DOMAIN d.rows |-> to_datetime(d.rows[i]["_eater_request_dt"])]

\* app.py: Derive temporal columns if missing
derive_temporal(d) ==
  IF "_eater_request_dt" \in d.columns
    THEN LET d1 == IF "hour_of_day" \notin d.columns
                     THEN assign(d, "hour_of_day",
                                 [i \in DOMAIN d.rows |-> hour(request_dt(d)[i])])
                     ELSE d
             d2 == IF "day_of_week" \notin d1.columns
                     THEN assign(d1, "day_of_week",
                                 [i \in DOMAIN d1.rows |-> dayofweek(request_dt(d)[i])])
                     ELSE d1
             d3 == IF "is_weekend" \notin d2.columns
                     THEN assign(d2, "is_weekend",
                                 [i \in DOMAIN d2.rows |-> ge5(dayofweek(request_dt(d)[i]))])
                     ELSE d2
         IN d3
    ELSE d

----------------------------------------------------------------------------
(* Datasets as read from a file: rows over named columns *)

RowColumns ==
  {"Territory", "Geo Archetype", "workflow", "merchantSurface", "eater_request_time",
   "pickup_km", "dropoff_distance", "ATD", "hour_of_day"}

Row(t, g, w, m, ts, p, d, a, h) ==
  [c \in RowColumns |->
     CASE c = "Territory" -> t
       [] c = "Geo Archetype" -> g
       [] c = "workflow" -> w
       [] c = "merchantSurface" -> m
       [] c = "eater_request_time" -> ts
       [] c = "pickup_km" -> p
       [] c = "dropoff_distance" -> d
       [] c = "ATD" -> a
       [] c = "hour_of_day" -> h]

SampleRows ==
  { Row(Str("US"), Str("urban"), Str("bike"), Str("web"),
        Str("2024-01-01T00:00:00"), Num(Unit + Unit \div 2), Num(2 * Unit),
        Num(10 * Unit), Num(0)),
    Row(Str("US"), Str("rural"), Str("car"), Str("app"),
        Str("2024-01-07T23:59:59.9995"), Str("2.5"), Num(3 * Unit + 1),
        Num(20 * Unit), Num(23 * Unit)),
    Row(Str("EU"), NA, Str("bike"), NA,
        NA, NA, Str("far"), Num(30 * Unit), NA),
    Row(NA, Str("urban"), NA, Str("web"),
        Str("soon"), Num(3 * Unit), NA, Str("n/a"), Num(7 * Unit)),
    Row(Str("EU"), Str("urban"), Str("car"), Str("web"),
        Str("2024-01-06T10:00:00"), Num(Unit \div 2), Num(2 * Unit), NA,
        Num(10 * Unit)),
    Row(Str("US"), Str("urban"), Str("bike"), Str("app"),
        Str("2024-01-02T23:59:59.999"), Str("30"), Str("0"), Num(10 * Unit),
        Num(23 * Unit)) }

\* the sequences over S of length at most n
RECURSIVE SeqsUpTo(_, _)
SeqsUpTo(S, n) ==
  IF n = 0 THEN {<<>>}
  ELSE LET P == SeqsUpTo(S, n - 1)
       IN P \cup {Append(q, x) : q \in P, x \in S}

\* the dataset with columns C whose rows are the rows q cut to C
Frame(C, q) ==
  [columns |-> C, rows |-> [i \in DOMAIN q |-> [c \in C |-> q[i][c]]]]

DeriveColumnSets ==
  SUBSET {"Territory", "eater_request_time", "pickup_km", "dropoff_distance", "ATD",
          "hour_of_day"}

InitDerive ==
  /\ pc = "read_csv"
  /\ \E C \in DeriveColumnSets, q \in SeqsUpTo(SampleRows, MaxRows) :
       df = Frame(C, q)
  /\ Idle

\* app.py: df = add_derived_fields(df, cols)
AddDerived ==
  /\ pc = "resolved"
  /\ LET r == add_derived_fields(df, cols)
     IN /\ df' = r.out
        /\ caller_df' = r.df
  /\ pc' = "derived"
  /\ UNCHANGED <<cols, filters, filtered, atd_col, dim, kpis, df_agg, widgets>>

\* app.py: Derive temporal columns if missing
DeriveTemporal ==
  /\ pc = "derived"
  /\ df' = derive_temporal(df)
  /\ pc' = "bucketed"
  /\ UNCHANGED <<caller_df, cols, filters, filtered, atd_col, dim, kpis, df_agg, widgets>>

NextDerive == Resolve \/ AddDerived \/ DeriveTemporal

SpecDerive == InitDerive /\ [][NextDerive]_vars

NumericKeys == {"pickup_distance", "dropoff_distance", "atd"}

Convertible(c) == c.k = "num" \/ (c.k = "str" /\ c.s \in DOMAIN NumStrings)

\* C8: add_derived_fields leaves the caller's dataset as it was and returns
\* the same rows in the same order: every cell outside the mapped numeric
\* columns and the derived timestamp is kept, a cell of a mapped numeric
\* column is a number or null, and null when it is not convertible, the
\* derived timestamp is null where the source is absent or does not parse,
\* no column is created for an absent numeric key, and coercing the result
\* again changes nothing.
C8_AddDerived ==
  [][(pc = "resolved" /\ pc' = "derived") =>
       LET numeric == {cols[k] : k \in NumericKeys} \ {None}
           eat == cols["eater_request_ts"]
           again == add_derived_fields(df', cols).out
       IN /\ caller_df' = df
          /\ df'.columns = df.columns \cup {"_eater_request_dt"}
          /\ Len(df'.rows) = Len(df.rows)
          /\ again = df'
          /\ \A i \in DOMAIN df.rows :
               /\ \A c \in df.columns \ (numeric \cup {"_eater_request_dt"}) :
                    df'.rows[i][c] = df.rows[i][c]
               /\ \A c \in numeric :
                    /\ df'.rows[i][c].k \in {"num", "na"}
                    /\ ~Convertible(df.rows[i][c]) => isna(df'.rows[i][c])
                    /\ df.rows[i][c].k = "num" => df'.rows[i][c] = df.rows[i][c]
               /\ df'.rows[i]["_eater_request_dt"].k \in {"ts", "na"}
               /\ (eat = None \/ df.rows[i][eat].k # "str"
                     \/ df.rows[i][eat].s \notin DOMAIN DateStrings)
                    => isna(df'.rows[i]["_eater_request_dt"])
    ]_vars

\* a normalised dataset of two rows, one with text in a numeric column that
\* became null and a timestamp that did not parse, while the caller's dataset
\* still holds the text
C8_Witness ==
  /\ pc = "derived"
  /\ Len(df.rows) = 2
  /\ cols["atd"] = "ATD"
  /\ cols["pickup_distance"] = "pickup_km"
  /\ cols["dropoff_distance"] = None
  /\ "eater_request_time" \in caller_df.columns
  /\ \E i \in DOMAIN df.rows :
       /\ caller_df.rows[i]["ATD"] = Str("n/a")
       /\ isna(df.rows[i]["ATD"])
       /\ caller_df.rows[i]["eater_request_time"] = Str("soon")
       /\ isna(df.rows[i]["_eater_request_dt"])
  /\ \E i \in DOMAIN df.rows :
       /\ caller_df.rows[i]["pickup_km"] = Str("2.5")
       /\ df.rows[i]["pickup_km"] = Num(2 * Unit + Unit \div 2)

Derived(name) == name \notin caller_df.columns

\* C7: after the temporal buckets are derived, a row with a null derived
\* timestamp has null hour-of-day, day-of-week and weekend flag, and a row
\* with a timestamp has hour-of-day in 0..23, day-of-week in 0..6 (0 = Monday)
\* and weekend flag true exactly when day-of-week >= 5.
C7_Buckets ==
  pc = "bucketed" =>
    \A i \in DOMAIN df.rows :
      LET r == df.rows[i]
          dt == r["_eater_request_dt"]
      IN IF isna(dt)
           THEN /\ Derived("hour_of_day") => isna(r["hour_of_day"])
                /\ isna(r["day_of_week"])
                /\ isna(r["is_weekend"])
           ELSE /\ Derived("hour_of_day") =>
                     /\ r["hour_of_day"].k = "num"
                     /\ r["hour_of_day"].n \in {h * Unit : h \in 0..23}
                /\ r["day_of_week"].k = "num"
                /\ r["day_of_week"].n \in {w * Unit : w \in 0..6}
                /\ r["is_weekend"] = Bool(r["day_of_week"].n >= 5 * Unit)

\* the part of C7 the code keeps: the buckets of rows with a timestamp, and
\* null hour-of-day and day-of-week on rows without
C7_BucketsOfTimestamps ==
  pc = "bucketed" =>
    \A i \in DOMAIN df.rows :
      LET r == df.rows[i]
          dt == r["_eater_request_dt"]
      IN IF isna(dt)
           THEN /\ Derived("hour_of_day") => isna(r["hour_of_day"])
                /\ isna(r["day_of_week"])
                /\ r["is_weekend"] = Bool(FALSE)
           ELSE /\ Derived("hour_of_day") =>
                     r["hour_of_day"] = Num((((dt.n \div TicksPerMs) % MsPerDay) \div MsPerHour) * Unit)
                /\ r["day_of_week"].k = "num"
                /\ r["day_of_week"].n \in {w * Unit : w \in 0..6}
                /\ r["is_weekend"] = Bool(r["day_of_week"].n >= 5 * Unit)

\* 2024-01-01 is a Monday, 2024-01-06 a Saturday, 2024-01-07 a Sunday
C7_Calendar ==
  pc = "bucketed" /\ "eater_request_time" \in df.columns =>
    \A i \in DOMAIN df.rows :
      LET r == df.rows[i]
      IN /\ r["eater_request_time"] = Str("2024-01-01T00:00:00")
              => r["day_of_week"] = Num(0) /\ r["is_weekend"] = Bool(FALSE)
         /\ r["eater_request_time"] = Str("2024-01-06T10:00:00")
              => r["day_of_week"] = Num(5 * Unit) /\ r["is_weekend"] = Bool(TRUE)
         /\ r["eater_request_time"] = Str("2024-01-07T23:59:59.9995")
              => r["day_of_week"] = Num(6 * Unit) /\ r["is_weekend"] = Bool(TRUE)

----------------------------------------------------------------------------
(* filter_frame *)

FilterKeys == DOMAIN NoFilters

CatKeys == {"territory", "geo_archetype", "courier_flow", "merchant_surface"}

\* `if values:` without the test of the column
cat_active_any_col(c, f, col_key) == f[col_key] # Unset /\ f[col_key][1] # {}

\* `if col and values:` of apply_cat
cat_active(c, f, col_key) ==
  c[col_key] # None /\ f[col_key] # Unset /\ f[col_key][1] # {}

\* `if date_range and cols.get("eater_request_ts")`
date_active(c, f) == f["date_range"] # Unset /\ c["eater_request_ts"] # None

\* `if pickup_range and cols.get("pickup_distance")`, the same for dropoff
range_active(c, f, key, arg) == f[arg] # Unset /\ c[key] # None

\* Series.isin(values) on one cell: NaN is in a list that holds NaN
isin(cell, values) == cell \in values

\* dt > start and dt < end
date_strictly_between(cell, rng) == cell.k = "ts" /\ rng[1] < cell.n /\ cell.n < rng[2]

\* (dt >= start) & (dt <= end); a comparison with NaT is False
date_between(cell, rng) == cell.k = "ts" /\ rng[1] <= cell.n /\ cell.n <= rng[2]

\* Series.between(left, right) with one bound left out
between_left_open(cell, rng) ==
  /\ cell.k = "num" /\ rng[1].k = "num" /\ rng[2].k = "num"
  /\ rng[1].n < cell.n /\ cell.n <= rng[2].n

\* Series.between(left, right): both ends in; a comparison with NaN is False
between(cell, rng) ==
  /\ cell.k = "num" /\ rng[1].k = "num" /\ rng[2].k = "num"
  /\ rng[1].n <= cell.n /\ cell.n <= rng[2].n

\* the columns filter_frame subscripts df with
filter_reads(c, f) ==
  {c[k] : k \in {k \in CatKeys : cat_active(c, f, k)}}
    \cup (IF date_active(c, f) THEN {"_eater_request_dt"} ELSE {})
    \cup (IF range_active(c, f, "pickup_distance", "pickup_range")
            THEN {c["pickup_distance"]} ELSE {})
    \cup (IF range_active(c, f, "dropoff_distance", "dropoff_range")
            THEN {c["dropoff_distance"]} ELSE {})

\* the mask of one row
filter_mask(r, c, f) ==
  /\ \A k \in CatKeys : cat_active(c, f, k) => isin(r[c[k]], f[k][1])
  /\ date_active(c, f) => date_between(r["_eater_request_dt"], f["date_range"])
  /\ range_active(c, f, "pickup_distance", "pickup_range")
       => between(r[c["pickup_distance"]], f["pickup_range"])
  /\ range_active(c, f, "dropoff_distance", "dropoff_range")
       => between(r[c["dropoff_distance"]], f["dropoff_range"])

\* df[mask], or KeyError when a column it subscripts is no column of df
filter_frame(d, c, f) ==
  IF filter_reads(c, f) \subseteq d.columns
    THEN [raised |-> FALSE,
          frame |-> [columns |-> d.columns,
                     rows |-> SelectSeq(d.rows, LAMBDA r : filter_mask(r, c, f))]]
    ELSE [raised |-> TRUE, frame |-> NoFrame]

----------------------------------------------------------------------------
(* filter_frame on normalised datasets under arbitrary keyword arguments *)

MaxActive == 2      \* keyword arguments of filter_frame that are supplied at once

FilterColumns == RowColumns \ {"ATD", "hour_of_day"}

\* every key mapped, or one or two of them absent
FilterColumnSets == {FilterColumns \ A : A \in SubsetsUpTo(FilterColumns, 2)}

DateArg == <<At(0, 0, 0), At(1, MsPerDay - 1, 0)>>

FilterSettings ==
  { <<"territory", <<{}>>>>, <<"territory", <<{Str("US")}>>>>,
    <<"territory", <<{Str("US"), Str("EU")}>>>>,
    <<"geo_archetype", <<{Str("urban")}>>>>,
    <<"courier_flow", <<{Str("bike")}>>>>,
    <<"merchant_surface", <<{Str("web"), NA}>>>>,
    <<"date_range", DateArg>>,
    <<"pickup_range", <<Num(Unit \div 2), Num(3 * Unit)>>>>,
    <<"pickup_range", <<NA, NA>>>>,
    <<"dropoff_range", <<Num(2 * Unit), Num(2 * Unit)>>>> }

\* the keyword arguments that supply the settings S, one per key at most
Arguments(S) ==
  [k \in FilterKeys |->
     IF \E x \in S : x[1] = k THEN (CHOOSE x \in S : x[1] = k)[2] ELSE Unset]

ArgumentSets ==
  {Arguments(S) : S \in {T \in SubsetsUpTo(FilterSettings, MaxActive) :
                           \A x, y \in T : x[1] = y[1] => x = y}}

InitFilter ==
  /\ pc = "call"
  /\ \E C \in FilterColumnSets, q \in SeqsUpTo(SampleRows, MaxRows) :
       LET raw == Frame(C, q)
       IN /\ cols = resolve_columns(raw)
          /\ df = add_derived_fields(raw, cols).out
          /\ caller_df = raw
  /\ widgets = NoWidgets
  /\ filters \in ArgumentSets
  /\ filtered = NoFrame
  /\ atd_col = None
  /\ dim = None
  /\ kpis = NoKpis
  /\ df_agg = {}

\* filtered = filter_frame(df, cols, **filters)
CallFilterFrame ==
  /\ pc = "call"
  /\ LET r == filter_frame(df, cols, filters)
     IN /\ filtered' = r.frame
        /\ pc' = IF r.raised THEN "raised" ELSE "returned"
  /\ UNCHANGED <<df, caller_df, cols, filters, atd_col, dim, kpis, df_agg, widgets>>

SpecFilter == InitFilter /\ [][CallFilterFrame]_vars

\* the predicates of the filter specification, stated on one row
CatPasses(r, key) ==
  cols[key] = None \/ filters[key] = Unset \/ filters[key] = <<{}>>
    \/ r[cols[key]] \in filters[key][1]

DatePasses(r) ==
  cols["eater_request_ts"] = None \/ filters["date_range"] = Unset
    \/ (/\ ~isna(r["_eater_request_dt"])
        /\ filters["date_range"][1] <= r["_eater_request_dt"].n
        /\ r["_eater_request_dt"].n <= filters["date_range"][2])

RangePasses(r, key, arg) ==
  cols[key] = None \/ filters[arg] = Unset
    \/ (/\ ~isna(r[cols[key]]) /\ ~isna(filters[arg][1]) /\ ~isna(filters[arg][2])
        /\ filters[arg][1].n <= r[cols[key]].n
        /\ r[cols[key]].n <= filters[arg][2].n)

Passes(r) ==
  /\ \A key \in CatKeys : CatPasses(r, key)
  /\ DatePasses(r)
  /\ RangePasses(r, "pickup_distance", "pickup_range")
  /\ RangePasses(r, "dropoff_distance", "dropoff_range")

\* q is p with the rows at the indices in drop taken out
RECURSIVE Kept(_, _)
Kept(p, keep) ==
  IF p = <<>> THEN <<>>
  ELSE LET rest == Kept(SubSeq(p, 1, Len(p) - 1), keep)
       IN IF Len(p) \in keep THEN Append(rest, p[Len(p)]) ELSE rest

\* C2: filter_frame returns exactly the rows that satisfy every active
\* predicate, in their order and unchanged; an empty or unset value set
\* matches every row, and an empty dataset gives an empty result; it does
\* not raise.
C2_FilterConjunction ==
  /\ pc # "raised"
  /\ pc = "returned" =>
       /\ filtered.columns = df.columns
       /\ filtered.rows = Kept(df.rows, {i \in DOMAIN df.rows : Passes(df.rows[i])})
       /\ df.rows = <<>> => filtered.rows = <<>>

\* two rows, the first one dropped by one of two active predicates and the
\* second kept, under an empty value set for no key
C2_Witness ==
  /\ pc = "returned"
  /\ Len(df.rows) = 2
  /\ filtered.rows = <<df.rows[2]>>
  /\ filters["territory"] = <<{Str("US")}>>
  /\ filters["pickup_range"] # Unset
  /\ cols["territory"] # None /\ cols["pickup_distance"] # None
  /\ df.rows[1][cols["territory"]] = Str("US")

\* an empty value set on a mapped column keeps rows of every value, null too
C2_WitnessEmptySet ==
  /\ pc = "returned"
  /\ filters["territory"] = <<{}>>
  /\ cols["territory"] # None
  /\ Len(filtered.rows) = 2
  /\ isna(filtered.rows[1][cols["territory"]])

\* C3: a predicate on a canonical key that maps to None is a no-op: the
\* result with it supplied is the result with it left out, and nothing is
\* raised.
ArgsOf(key) ==
  CASE key = "eater_request_ts" -> {"date_range"}
    [] key = "pickup_distance" -> {"pickup_range"}
    [] key = "dropoff_distance" -> {"dropoff_range"}
    [] key \in CatKeys -> {key}
    [] OTHER -> {}

C3_AbsentKeyNoOp ==
  /\ pc # "raised"
  /\ pc = "returned" =>
       \A key \in Keys : \A arg \in ArgsOf(key) :
         (cols[key] = None /\ filters[arg] # Unset) =>
           LET without == filter_frame(df, cols, [filters EXCEPT ![arg] = Unset])
           IN ~without.raised /\ filtered = without.frame

\* a value set that would drop rows, supplied for a key that maps to None,
\* next to an active predicate on another key
C3_Witness ==
  /\ pc = "returned"
  /\ cols["territory"] = None
  /\ filters["territory"] = <<{Str("US")}>>
  /\ filters["pickup_range"] = <<Num(Unit \div 2), Num(3 * Unit)>>
  /\ Len(df.rows) = 2
  /\ Len(filtered.rows) = 1

C3_WitnessDate ==
  /\ pc = "returned"
  /\ cols["eater_request_ts"] = None
  /\ filters["date_range"] # Unset
  /\ Len(filtered.rows) = 2

\* C4: when a date range is supplied and eater_request_ts is mapped, the
\* result is the result without the date range cut to the rows whose derived
\* timestamp is not null and lies in start..end, both ends included.
C4_DateInclusive ==
  (pc = "returned" /\ filters["date_range"] # Unset /\ cols["eater_request_ts"] # None) =>
    LET without == filter_frame(df, cols, [filters EXCEPT !["date_range"] = Unset]).frame
        start == filters["date_range"][1]
        end == filters["date_range"][2]
    IN filtered.rows =
         Kept(without.rows,
              {i \in DOMAIN without.rows :
                 LET dt == without.rows[i]["_eater_request_dt"]
                 IN ~isna(dt) /\ ~(dt.n < start) /\ ~(dt.n > end)})

\* a row whose timestamp is the lower bound and one whose timestamp is the
\* upper bound, both kept
C4_Witness ==
  /\ pc = "returned"
  /\ filters["date_range"] = DateArg
  /\ cols["eater_request_ts"] # None
  /\ Len(filtered.rows) = 2
  /\ filtered.rows[1]["_eater_request_dt"] = Ts(DateArg[1])
  /\ filtered.rows[2]["_eater_request_dt"] = Ts(DateArg[2])

\* a row with a null timestamp, dropped by the date range alone
C4_WitnessNull ==
  /\ pc = "returned"
  /\ filters = [NoFilters EXCEPT !["date_range"] = DateArg]
  /\ cols["eater_request_ts"] # None
  /\ Len(df.rows) = 1
  /\ isna(df.rows[1]["_eater_request_dt"])
  /\ filtered.rows = <<>>

----------------------------------------------------------------------------
(* kpi_series *)

NaN == [n |-> 0, d |-> 0]
Rat(n, d) == [n |-> n, d |-> d]
isnan(x) == x.d = 0

\* equality of two statistics as numbers; NaN equals nothing
SameNumber(x, y) == x.d # 0 /\ y.d # 0 /\ x.n * y.d = y.n * x.d

RECURSIVE Sum(_)
Sum(q) == IF q = <<>> THEN 0 ELSE Head(q) + Sum(Tail(q))

\* df[col].dropna(): the numbers of the non-null cells, in row order
dropna(d, col) ==
  LET kept == SelectSeq(d.rows, LAMBDA r : ~isna(r[col]))
  IN [i \in DOMAIN kept |-> kept[i][col]]

\* astype(float) raises on text that is no number
astype_float_raises(q) == \E i \in DOMAIN q : q[i].k # "num"

sorted(q) == SortSeq(q, LAMBDA a, b : a < b)

mean(q) == Rat(Sum(q), Len(q))

median(q) ==
  LET s == sorted(q)
      n == Len(q)
  IN IF n % 2 = 1 THEN Rat(s[(n + 1) \div 2], 1)
     ELSE Rat(s[n \div 2] + s[n \div 2 + 1], 2)

\* quantile(0.9, interpolation="lower")
quantile09_lower(q) ==
  LET s == sorted(q)
  IN Rat(s[(9 * (Len(q) - 1)) \div 10 + 1], 1)

\* Series.quantile(0.9): linear interpolation at position 0.9 * (n - 1)
quantile09(q) ==
  LET s == sorted(q)
      n == Len(q)
      lo == (9 * (n - 1)) \div 10
      fr == (9 * (n - 1)) % 10
      hi == IF lo + 1 < n THEN lo + 1 ELSE lo
  IN Rat(10 * s[lo + 1] + fr * (s[hi + 1] - s[lo + 1]), 10)

\* int(s.count())
kpi_count(d, col, q) == Len(q)

kpi_series(d, col) ==
  IF col = None \/ col \notin d.columns \/ dropna(d, col) = <<>>
    THEN [raised |-> FALSE, kpis |-> NoKpis]
  ELSE IF astype_float_raises(dropna(d, col))
    THEN [raised |-> TRUE, kpis |-> NoKpis]
  ELSE LET s == [i \in DOMAIN dropna(d, col) |-> dropna(d, col)[i].n]
       IN [raised |-> FALSE,
           kpis |-> [count |-> kpi_count(d, col, s), mean |-> mean(s),
                     median |-> median(s), p90 |-> quantile09(s)]]

----------------------------------------------------------------------------
(* kpi_series on datasets of up to MaxValues rows *)

MaxValues == 3

MetricValues == {NA, Num(10 * Unit), Num(20 * Unit), Num(30 * Unit), Num(Unit \div 2)}

NominatedColumns == {None, "ATD", "atd", "pickup_km"}

InitKpi ==
  /\ pc = "call"
  /\ \E q \in SeqsUpTo(MetricValues, MaxValues), C \in {{"ATD"}, {"ATD", "pickup_km"}} :
       filtered = [columns |-> C,
                   rows |-> [i \in DOMAIN q |->
                               [c \in C |-> IF c = "ATD" THEN q[i]
                                            ELSE q[Len(q) + 1 - i]]]]
  /\ atd_col \in NominatedColumns
  /\ df = NoFrame
  /\ caller_df = NoFrame
  /\ cols = NoCols
  /\ widgets = NoWidgets
  /\ filters = NoFilters
  /\ dim = None
  /\ kpis = NoKpis
  /\ df_agg = {}

\* kpis = kpi_series(filtered, atd_col)
CallKpiSeries ==
  /\ pc = "call"
  /\ LET r == kpi_series(filtered, atd_col)
     IN /\ kpis' = r.kpis
        /\ pc' = IF r.raised THEN "raised" ELSE "returned"
  /\ UNCHANGED <<df, caller_df, cols, filters, filtered, atd_col, dim, df_agg, widgets>>

SpecKpi == InitKpi /\ [][CallKpiSeries]_vars

\* the non-null numbers of the nominated column, and their order statistics
KpiValues ==
  IF atd_col = None \/ atd_col \notin filtered.columns THEN {}
  ELSE {i \in DOMAIN filtered.rows : ~isna(filtered.rows[i][atd_col])}

KpiValue(i) == filtered.rows[i][atd_col].n

\* the k-th smallest of the values, k in 1..Cardinality(KpiValues)
OrderStatistic(k) ==
  LET v == CHOOSE v \in {KpiValue(i) : i \in KpiValues} :
             /\ Cardinality({i \in KpiValues : KpiValue(i) < v}) < k
             /\ k <= Cardinality({i \in KpiValues : KpiValue(i) <= v})
  IN v

RECURSIVE Total(_)
Total(I) ==
  IF I = {} THEN 0
  ELSE LET i == CHOOSE i \in I : TRUE IN KpiValue(i) + Total(I \ {i})

\* C5: kpi_series returns the count of the non-null values of the column and
\* their mean, median and 90th percentile by linear interpolation; for an
\* absent column or no non-null value it returns count 0 and three NaN; for
\* a single value x it returns count 1 and mean = median = p90 = x; it does
\* not raise.
C5_Kpis ==
  /\ pc # "raised"
  /\ pc = "returned" =>
       LET n == Cardinality(KpiValues)
           h == 9 * (n - 1)
           lo == h \div 10 + 1
           hi == IF lo < n THEN lo + 1 ELSE lo
       IN /\ kpis.count = n
          /\ n = 0 => isnan(kpis.mean) /\ isnan(kpis.median) /\ isnan(kpis.p90)
          /\ n = 1 => \A i \in KpiValues :
                        /\ SameNumber(kpis.mean, Rat(KpiValue(i), 1))
                        /\ SameNumber(kpis.median, Rat(KpiValue(i), 1))
                        /\ SameNumber(kpis.p90, Rat(KpiValue(i), 1))
          /\ n > 0 =>
               /\ SameNumber(kpis.mean, Rat(Total(KpiValues), n))
               /\ SameNumber(kpis.median,
                             Rat(OrderStatistic((n + 1) \div 2)
                                   + OrderStatistic(n \div 2 + 1), 2))
               /\ SameNumber(kpis.p90,
                             Rat(10 * OrderStatistic(lo)
                                   + (h % 10) * (OrderStatistic(hi) - OrderStatistic(lo)),
                                 10))

\* the values 10, 20, 30: count 3, mean 20, median 20, p90 28
C5_Witness ==
  /\ pc = "returned"
  /\ atd_col = "ATD"
  /\ Len(filtered.rows) = 3
  /\ \A i \in 1..3 : filtered.rows[i]["ATD"] = Num(i * 10 * Unit)
  /\ kpis.count = 3
  /\ SameNumber(kpis.mean, Rat(20 * Unit, 1))
  /\ SameNumber(kpis.median, Rat(20 * Unit, 1))
  /\ SameNumber(kpis.p90, Rat(28 * Unit, 1))

\* a column of nulls alone: count 0 and NaN
C5_WitnessEmpty ==
  /\ pc = "returned"
  /\ atd_col = "ATD"
  /\ Len(filtered.rows) = 2
  /\ kpis.count = 0
  /\ isnan(kpis.mean)

\* a nominated column that is no column of the dataset
C5_WitnessAbsent ==
  /\ pc = "returned"
  /\ atd_col = "atd"
  /\ Len(filtered.rows) = 2
  /\ ~isna(filtered.rows[1]["ATD"])
  /\ kpis.count = 0
  /\ isnan(kpis.p90)

----------------------------------------------------------------------------
(* agg_by *)

\* the keys of groupby(dim): the distinct non-null values (dropna=True)
group_keys(d, by) == {d.rows[i][by] : i \in DOMAIN d.rows} \ {NA}

\* mean of the non-null values of the group, NaN when there is none
group_mean(d, by, key, col) ==
  LET q == SelectSeq(d.rows, LAMBDA r : r[by] = key /\ ~isna(r[col]))
  IN IF q = <<>> THEN NaN ELSE Rat(Sum([i \in DOMAIN q |-> q[i][col].n]), Len(q))

\* size of the group: its rows, whatever the metric holds
group_size(d, by, key) == Len(SelectSeq(d.rows, LAMBDA r : r[by] = key))

\* the rows of the aggregate; pandas orders them by key, which is not modelled
agg_by(df_in, by, col) ==
  IF by \notin df_in.columns \/ col \notin df_in.columns
    THEN [raised |-> TRUE, rows |-> {}]
    ELSE [raised |-> FALSE,
          rows |-> {[dim |-> key, ATD_mean |-> group_mean(df_in, by, key, col),
                     count |-> group_size(df_in, by, key)] :
                      key \in group_keys(df_in, by)}]

----------------------------------------------------------------------------
(* agg_by on normalised datasets *)

AggColumns == {"Territory", "Geo Archetype", "workflow", "merchantSurface", "ATD"}

InitAgg ==
  /\ pc = "call"
  /\ \E q \in SeqsUpTo(SampleRows, MaxRows) :
       LET raw == Frame(AggColumns, q)
       IN filtered = add_derived_fields(raw, resolve_columns(raw)).out
  /\ dim \in AggColumns \ {"ATD"}
  /\ atd_col = "ATD"
  /\ df = NoFrame
  /\ caller_df = NoFrame
  /\ cols = NoCols
  /\ widgets = NoWidgets
  /\ filters = NoFilters
  /\ kpis = NoKpis
  /\ df_agg = {}

\* df_agg = agg_by(filtered, dim, atd_col)
CallAggBy ==
  /\ pc = "call"
  /\ LET r == agg_by(filtered, dim, atd_col)
     IN /\ df_agg' = r.rows
        /\ pc' = IF r.raised THEN "raised" ELSE "returned"
  /\ UNCHANGED <<df, caller_df, cols, filters, filtered, atd_col, dim, kpis, widgets>>

SpecAgg == InitAgg /\ [][CallAggBy]_vars

RECURSIVE SumCounts(_)
SumCounts(A) ==
  IF A = {} THEN 0
  ELSE LET a == CHOOSE a \in A : TRUE IN a.count + SumCounts(A \ {a})

\* C6: agg_by gives one row per distinct value of the grouping column, the
\* null value included as a group of its own; the count of a group is the
\* number of input rows with that value, whatever the metric holds, and the
\* counts add up to the number of input rows.
C6_GroupCounts ==
  pc = "returned" =>
    LET values == {filtered.rows[i][dim] : i \in DOMAIN filtered.rows}
    IN /\ {a.dim : a \in df_agg} = values
       /\ Cardinality(df_agg) = Cardinality(values)
       /\ \A a \in df_agg :
            a.count = Cardinality({i \in DOMAIN filtered.rows :
                                     filtered.rows[i][dim] = a.dim})
       /\ SumCounts(df_agg) = Len(filtered.rows)

\* what the code keeps of C6: the groups of the non-null values
C6_GroupCountsOfValues ==
  pc = "returned" =>
    LET values == {filtered.rows[i][dim] : i \in DOMAIN filtered.rows} \ {NA}
    IN /\ {a.dim : a \in df_agg} = values
       /\ Cardinality(df_agg) = Cardinality(values)
       /\ \A a \in df_agg :
            a.count = Cardinality({i \in DOMAIN filtered.rows :
                                     filtered.rows[i][dim] = a.dim})
       /\ SumCounts(df_agg)
            = Cardinality({i \in DOMAIN filtered.rows : ~isna(filtered.rows[i][dim])})

----------------------------------------------------------------------------
(* app.py: the sidebar widgets and the filter specification built from them *)

Min(S) == CHOOSE x \in S : \A y \in S : x <= y
Max(S) == CHOOSE x \in S : \A y \in S : y <= x

np_floor(n) == (n \div Unit) * Unit
np_ceil(n) == ((n + Unit - 1) \div Unit) * Unit

\* df[col].unique() without the dropna()
options_with_na(d, col) == {d.rows[i][col] : i \in DOMAIN d.rows}

\* df[col].dropna().unique(): the options of a multiselect
options(d, col) == {d.rows[i][col] : i \in DOMAIN d.rows} \ {NA}

\* the non-null numbers of a column: pickup/dropoff distances, timestamps
Numbers(d, col) ==
  {d.rows[i][col].n : i \in {j \in DOMAIN d.rows : ~isna(d.rows[j][col])}}

DayOf(t) == (t \div TicksPerMs) \div MsPerDay

\* multiselect_for: None without a column, else the selection, all options
\* by default
multiselect_default(d, c, col_key) ==
  IF c[col_key] = None THEN Unset ELSE <<options(d, c[col_key])>>

\* st.sidebar.date_input: shown when a timestamp is not null; a pair of days
date_input_default(d) ==
  IF Numbers(d, "_eater_request_dt") = {} THEN Unset
  ELSE <<DayOf(Min(Numbers(d, "_eater_request_dt"))),
         DayOf(Max(Numbers(d, "_eater_request_dt")))>>

\* st.sidebar.slider: floor(min)..ceil(max); min and max of no number are NaN
slider_default(d, c, key) ==
  IF c[key] = None THEN Unset
  ELSE IF Numbers(d, c[key]) = {} THEN <<NA, NA>>
  ELSE <<Num(np_floor(Min(Numbers(d, c[key])))), Num(np_ceil(Max(Numbers(d, c[key]))))>>

DefaultWidgets(d, c) ==
  [territory |-> multiselect_default(d, c, "territory"),
   geo_archetype |-> multiselect_default(d, c, "geo_archetype"),
   courier_flow |-> multiselect_default(d, c, "courier_flow"),
   merchant_surface |-> multiselect_default(d, c, "merchant_surface"),
   date_input |-> date_input_default(d),
   pickup |-> slider_default(d, c, "pickup_distance"),
   dropoff |-> slider_default(d, c, "dropoff_distance")]

\* what the user can make one multiselect return: any part of its options
MultiselectChoices(d, c, col_key) ==
  IF c[col_key] = None THEN {}
  ELSE {<<S>> : S \in SUBSET options(d, c[col_key])}

\* what the user can make date_input return: one day (a range half picked)
\* or two, within the days of the data
DateInputChoices(d) ==
  IF Numbers(d, "_eater_request_dt") = {} THEN {}
  ELSE LET days == date_input_default(d)[1]..date_input_default(d)[2]
       IN {<<a>> : a \in days} \cup {p \in days \X days : p[1] <= p[2]}

\* what the user can make a slider return: a pair of stops; the stops taken
\* are the ends of the slider and the numbers of the column
SliderChoices(d, c, key) ==
  IF c[key] = None \/ Numbers(d, c[key]) = {} THEN {}
  ELSE LET stops == Numbers(d, c[key])
                      \cup {slider_default(d, c, key)[1].n, slider_default(d, c, key)[2].n}
       IN {<<Num(a), Num(b)>> : a \in stops, b \in stops}

\* the default selection, or the default with one widget set by the user
Selections(d, c) ==
  LET w0 == DefaultWidgets(d, c)
  IN {w0}
       \cup UNION {{[w0 EXCEPT ![k] = v] : v \in MultiselectChoices(d, c, k)} : k \in CatKeys}
       \cup {[w0 EXCEPT !["date_input"] = v] : v \in DateInputChoices(d)}
       \cup {[w0 EXCEPT !["pickup"] = v] : v \in SliderChoices(d, c, "pickup_distance")}
       \cup {[w0 EXCEPT !["dropoff"] = v] : v \in SliderChoices(d, c, "dropoff_distance")}

\* end_ts = pd.to_datetime(date_range[1]), the start of the end day
end_ts_start_of_day(day) == At(day, 0, 0)

\* end_ts = pd.to_datetime(date_range[1]) + Timedelta(days=1) - Timedelta(milliseconds=1)
end_ts(day) == At(day, 0, 0) + MsPerDay * TicksPerMs - TicksPerMs

\* app.py: the date range handed to filter_frame
date_range(d, value) ==
  IF Numbers(d, "_eater_request_dt") = {} THEN Unset
  ELSE IF Len(value) = 2 THEN <<At(value[1], 0, 0), end_ts(value[2])>>
  ELSE <<Min(Numbers(d, "_eater_request_dt")), Max(Numbers(d, "_eater_request_dt"))>>

filter_arguments(d, w) ==
  [territory |-> w["territory"], geo_archetype |-> w["geo_archetype"],
   courier_flow |-> w["courier_flow"], merchant_surface |-> w["merchant_surface"],
   date_range |-> date_range(d, w["date_input"]),
   pickup_range |-> w["pickup"], dropoff_range |-> w["dropoff"]]

\* app.py: Charts
day_map(c) ==
  IF c.k = "num" /\ c.n \in {w * Unit : w \in 0..6}
    THEN Str(<<"Mon", "Tue", "Wed", "Thu", "Fri", "Sat", "Sun">>[c.n \div Unit + 1])
    ELSE NA

\* np.where(filtered["is_weekend"], "Weekend", "Weekday")
weekend_label(c) == IF c.k # "na" /\ c.n # 0 THEN Str("Weekend") ELSE Str("Weekday")

labelled(d) ==
  LET d1 == IF "day_of_week" \in d.columns
              THEN assign(d, "_dow_label",
                          [i \in DOMAIN d.rows |-> day_map(d.rows[i]["day_of_week"])])
              ELSE d
  IN IF "is_weekend" \in d.columns
       THEN assign(d1, "_is_weekend_label",
                   [i \in DOMAIN d1.rows |-> weekend_label(d1.rows[i]["is_weekend"])])
       ELSE d1

charts(d, c, col) ==
  [chart \in {c[k] : k \in {k \in CatKeys : c[k] # None}}
             \cup ({"_dow_label", "hour_of_day", "_is_weekend_label"} \cap d.columns) |->
     agg_by(d, chart, col).rows]

----------------------------------------------------------------------------
(* One run of the script on a dataset read from a file *)

AppColumnSets ==
  {C \cup {"ATD"} :
     C \in SUBSET {"Territory", "Geo Archetype", "eater_request_time", "pickup_km",
                   "dropoff_distance"}}

InitApp ==
  /\ pc = "read_csv"
  /\ \E C \in AppColumnSets, q \in SeqsUpTo(SampleRows, MaxRows) :
       df = Frame(C, q)
  /\ Idle

\* the sidebar: the widgets' values and the filter specification
SelectFilters ==
  /\ pc = "bucketed"
  /\ widgets' \in Selections(df, cols)
  /\ filters' = filter_arguments(df, widgets')
  /\ pc' = "selected"
  /\ UNCHANGED <<df, caller_df, cols, filtered, atd_col, dim, kpis, df_agg>>

\* filtered = filter_frame(df, cols, ...)
ApplyFilters ==
  /\ pc = "selected"
  /\ LET r == filter_frame(df, cols, filters)
     IN /\ filtered' = r.frame
        /\ pc' = IF r.raised THEN "raised" ELSE "filtered"
  /\ UNCHANGED <<df, caller_df, cols, widgets, filters, atd_col, dim, kpis, df_agg>>

\* KPIs and charts
Charts ==
  /\ pc = "filtered"
  /\ atd_col' = cols["atd"]
  /\ kpis' = kpi_series(filtered, atd_col').kpis
  /\ IF atd_col' # None
       THEN /\ filtered' = labelled(filtered)
            /\ df_agg' = charts(filtered', cols, atd_col')
       ELSE UNCHANGED <<filtered, df_agg>>
  /\ pc' = "rendered"
  /\ UNCHANGED <<df, caller_df, cols, widgets, filters, dim>>

NextApp == Resolve \/ AddDerived \/ DeriveTemporal \/ SelectFilters \/ ApplyFilters \/ Charts

SpecApp == InitApp /\ [][NextApp]_vars

\* the result of the filter specification with the date range left out
WithoutDateRange ==
  filter_frame(df, cols, [filters EXCEPT !["date_range"] = Unset]).frame

UserGaveTwoDays == pc = "filtered" /\ Len(widgets["date_input"]) = 2

\* C9 as stated: for a pair of days from the user the bounds are the start of
\* the start day and 23:59:59.999 of the end day, and every row whose
\* timestamp falls on a day from the start day to the end day passes the
\* date range.
C9_WholeDays ==
  UserGaveTwoDays =>
    LET first == widgets["date_input"][1]
        last == widgets["date_input"][2]
    IN /\ filters["date_range"] = <<At(first, 0, 0), At(last, MsPerDay - 1, 0)>>
       /\ \A i \in DOMAIN WithoutDateRange.rows :
            LET r == WithoutDateRange.rows[i]
            IN (~isna(r["_eater_request_dt"])
                  /\ DayOf(r["_eater_request_dt"].n) \in first..last)
                 => \E j \in DOMAIN filtered.rows : filtered.rows[j] = r

\* C9 as amended: for a pair of days from the user the bounds are the start
\* of the start day and 23:59:59.999 of the end day, and the rows that pass
\* the date range are those whose timestamp lies from the start of the start
\* day to 23:59:59.999 of the end day, both included; a timestamp of the end
\* day later than 23:59:59.999 does not pass.
C9_DaysToLastMillisecond ==
  UserGaveTwoDays =>
    LET first == widgets["date_input"][1]
        last == widgets["date_input"][2]
        rows == WithoutDateRange.rows
    IN /\ filters["date_range"] = <<At(first, 0, 0), At(last, MsPerDay - 1, 0)>>
       /\ filtered.rows =
            Kept(rows, {i \in DOMAIN rows :
                          LET dt == rows[i]["_eater_request_dt"]
                          IN /\ ~isna(dt)
                             /\ DayOf(dt.n) \in first..last
                             /\ (DayOf(dt.n) = last =>
                                   (dt.n \div TicksPerMs) % MsPerDay < MsPerDay - 1
                                     \/ dt.n % TicksPerMs = 0)})

\* one day given as both bounds, a row at 10:00 of that day kept and a row of
\* another day dropped
C9_Witness ==
  /\ UserGaveTwoDays
  /\ widgets["date_input"] = <<5, 5>>
  /\ Len(df.rows) = 2
  /\ Len(filtered.rows) = 1
  /\ filtered.rows[1]["_eater_request_dt"] = Ts(At(5, 10 * MsPerHour, 0))

\* a row at 23:59:59.9995 of the end day, dropped
C9_WitnessLastMillisecond ==
  /\ UserGaveTwoDays
  /\ widgets["date_input"][2] = 6
  /\ \E i \in DOMAIN df.rows :
       df.rows[i]["_eater_request_dt"] = Ts(At(6, MsPerDay - 1, TicksPerMs \div 2))
  /\ filtered.rows = <<>>

DistanceKeys == {"pickup_distance", "dropoff_distance"}

DefaultSelection == pc = "filtered" /\ widgets = DefaultWidgets(df, cols)

\* an active predicate keeps no row that is null in its column
NullFailsActivePredicates ==
  pc = "filtered" =>
    \A j \in DOMAIN filtered.rows :
      /\ \A k \in CatKeys :
           (cols[k] # None /\ filters[k] # Unset /\ filters[k] # <<{}>>)
             => ~isna(filtered.rows[j][cols[k]])
      /\ (cols["pickup_distance"] # None /\ filters["pickup_range"] # Unset)
           => ~isna(filtered.rows[j][cols["pickup_distance"]])
      /\ (cols["dropoff_distance"] # None /\ filters["dropoff_range"] # Unset)
           => ~isna(filtered.rows[j][cols["dropoff_distance"]])

\* C10 as stated: a null in a mapped categorical or distance column fails the
\* column's active predicate, and under the default selection the filtered
\* dataset is exactly the rows with no null in any mapped categorical column,
\* mapped distance column or derived timestamp.
C10_DefaultDropsNulls ==
  /\ NullFailsActivePredicates
  /\ DefaultSelection =>
       filtered.rows =
         Kept(df.rows,
              {i \in DOMAIN df.rows :
                 /\ \A k \in CatKeys \cup DistanceKeys :
                      cols[k] # None => ~isna(df.rows[i][cols[k]])
                 /\ ~isna(df.rows[i]["_eater_request_dt"])})

\* C10 as amended: a null in a mapped categorical or distance column fails
\* the column's active predicate, and under the default selection the
\* filtered dataset is exactly the rows with no null in any mapped
\* categorical column that holds a non-null value, no null in any mapped
\* distance column and, when some derived timestamp is not null, a derived
\* timestamp that is not null and not later than 23:59:59.999 of the last
\* day of the data; a categorical column of nulls alone, and a dataset
\* without any timestamp, drop no row.
C10_DefaultDropsNullsOfActive ==
  /\ NullFailsActivePredicates
  /\ DefaultSelection =>
       filtered.rows =
         Kept(df.rows,
              {i \in DOMAIN df.rows :
                 /\ \A k \in CatKeys :
                      (cols[k] # None
                         /\ \E j \in DOMAIN df.rows : ~isna(df.rows[j][cols[k]]))
                        => ~isna(df.rows[i][cols[k]])
                 /\ \A k \in DistanceKeys :
                      cols[k] # None => ~isna(df.rows[i][cols[k]])
                 /\ (\E j \in DOMAIN df.rows : ~isna(df.rows[j]["_eater_request_dt"]))
                      => /\ ~isna(df.rows[i]["_eater_request_dt"])
                         /\ df.rows[i]["_eater_request_dt"].n
                              <= At(Max({DayOf(df.rows[j]["_eater_request_dt"].n) :
                                           j \in {j \in DOMAIN df.rows :
                                                    ~isna(df.rows[j]["_eater_request_dt"])}}),
                                    MsPerDay - 1, 0)})

\* the default selection on two rows with every column mapped: the row with
\* a null territory dropped, the other kept
C10_Witness ==
  /\ DefaultSelection
  /\ cols["territory"] # None
  /\ cols["pickup_distance"] # None
  /\ cols["eater_request_ts"] # None
  /\ Len(df.rows) = 2
  /\ isna(df.rows[1][cols["territory"]])
  /\ ~isna(df.rows[1][cols["pickup_distance"]])
  /\ filtered.rows = <<df.rows[2]>>

\* the default selection on a territory column of nulls alone: the row kept
C10_WitnessAllNull ==
  /\ DefaultSelection
  /\ cols["territory"] # None
  /\ Len(df.rows) = 1
  /\ isna(df.rows[1][cols["territory"]])
  /\ Len(filtered.rows) = 1

====
